---- MODULE Spec2Model ----
(***************************************************************************)
(* golog: the field redactor (WithCensoredSecretFields / censorFields /    *)
(* asStruct / isFieldSecret) and the event hook (callerHook.Run).          *)
(*                                                                         *)
(* The redactor's recursion is unfolded into an explicit call stack, one   *)
(* action per loop iteration, so that a walk that never returns is a       *)
(* behaviour of the model rather than a divergent evaluation.              *)
(***************************************************************************)
EXTENDS Integers, Sequences, FiniteSets, TLC

\* ---------------------------------------------------------------- bounds
\* The struct objects an input is built from; object 1 is the root record.
Objs == {1, 2}
\* Declared field names, by declaration index; every struct has these fields.
FieldNames == <<"A", "B">>
\* Largest number of non-nil pointer levels wrapped around a value.
MaxPtr == 2
\* How many nested calls beyond one per object the model follows a walk
\* before it stops following it (the code itself has no such limit).
ExtraDepth == 2

MaxDepth == Cardinality(Objs) + ExtraDepth

\* v.NumField()
NumField == Len(FieldNames)

\* ------------------------------------------------------- program constants
CensoredFieldPlaceholder == "***"

\* ------------------------------------------------------------ reflect.Value
\* A reflect.Value: `depth` non-nil pointer levels around a nil pointer, a
\* string, the struct object `ref`, or nothing at all (the zero Value that
\* reflect.ValueOf(nil) returns).  `ro` is reflect's read-only flag, set on
\* values obtained through an unexported field.
MkValue(kind, depth, ref, data, ro) ==
    [kind |-> kind, depth |-> depth, ref |-> ref, data |-> data, ro |-> ro]

ZeroValue == MkValue("Invalid", 0, 0, "", FALSE)

\* v.Kind()
Kind(v) ==
    IF v.depth > 0 \/ v.kind = "NilPointer" THEN "Pointer" ELSE v.kind

\* v.IsNil() for a pointer
IsNil(v) == v.depth = 0 /\ v.kind = "NilPointer"

\* v.Elem() for a non-nil pointer: one level less, the read-only flag kept
Elem(v) == [v EXCEPT !.depth = @ - 1]

\* v.Interface(): the Go value, without reflect's flags
Interface(v) == [kind |-> v.kind, depth |-> v.depth, ref |-> v.ref, data |-> v.data]

\* whether v.Interface() panics
InterfacePanics(v) == v.ro

\* The Go string s as a logged value
StringValue(s) == [kind |-> "String", depth |-> 0, ref |-> 0, data |-> s]

\* ------------------------------------------------------------------ asStruct
\* asStruct without its final Kind check: whatever is left after the
\* pointers is taken for a struct.
RECURSIVE asStructAnyKind(_)
asStructAnyKind(v) ==
    IF Kind(v) = "Pointer"
    THEN IF IsNil(v)
         THEN [v |-> ZeroValue, ok |-> FALSE]
         ELSE asStructAnyKind(Elem(v))
    ELSE [v |-> v, ok |-> TRUE]

\* asStruct with an `if` for its `for`: one pointer level is dereferenced.
asStructOneLevel(v) ==
    LET e == IF Kind(v) = "Pointer" /\ ~IsNil(v) THEN Elem(v) ELSE v
    IN  IF Kind(e) # "Struct"
        THEN [v |-> ZeroValue, ok |-> FALSE]
        ELSE [v |-> e, ok |-> TRUE]

RECURSIVE asStruct(_)
asStruct(v) ==
    IF Kind(v) = "Pointer"
    THEN IF IsNil(v)
         THEN [v |-> ZeroValue, ok |-> FALSE]
         ELSE asStruct(Elem(v))
    ELSE IF Kind(v) # "Struct"
         THEN [v |-> ZeroValue, ok |-> FALSE]
         ELSE [v |-> v, ok |-> TRUE]

\* ------------------------------------------------------------- isFieldSecret
\* isFieldSecret comparing the tag with "true"
isFieldSecretOnlyTrue(f) == f.secret = "true"

\* f.Tag.Get("secret") != ""
isFieldSecret(f) == f.secret # ""

\* --------------------------------------------------------------- the inputs
\* The content of the string leaf stored in field i of object o.  The walk
\* never reads a leaf's content (only its Kind), so every leaf is given a
\* content of its own: an entry's value then tells which field it was read
\* from.
LeafData(o, i) == "val" \o ToString(o) \o FieldNames[i]

\* A declared field with its stored value: name, secret tag, exportedness.
MkField(i, secret, exported, val) ==
    [name |-> FieldNames[i], secret |-> secret, exported |-> exported, val |-> val]

\* The values of a field's `secret` tag; "" is no tag.
SecretTags == {"", "true", "0"}

\* Inputs come in two families.  A "tree" input is acyclic: field i of
\* object o holds a string (in an exported or an unexported field), a nil
\* pointer behind 0..MaxPtr non-nil pointers, or a later struct object by
\* value or behind 1..MaxPtr pointers; every field is secret-tagged or not,
\* a string field with any of SecretTags.
TreeChoices(o, i) ==
    {MkField(i, s, e, MkValue("String", 0, 0, LeafData(o, i), FALSE)) :
        s \in SecretTags, e \in BOOLEAN}
    \cup {MkField(i, s, TRUE, MkValue("NilPointer", d, 0, "", FALSE)) :
        s \in {"", "true"}, d \in 0..MaxPtr}
    \cup {MkField(i, s, TRUE, MkValue("Struct", d, j, "", FALSE)) :
        s \in {"", "true"}, d \in 0..MaxPtr, j \in {k \in Objs : k > o}}

\* A "graph" input may point anywhere, back to an ancestor included: field
\* i of object o holds a string (secret-tagged or not), a nil pointer or a
\* pointer to any struct object.
GraphChoices(o, i) ==
    {MkField(i, s, TRUE, MkValue("String", 0, 0, LeafData(o, i), FALSE)) :
        s \in {"", "true"}}
    \cup {MkField(i, "", TRUE, MkValue("NilPointer", 0, 0, "", FALSE))}
    \cup {MkField(i, "", TRUE, MkValue("Struct", 1, j, "", FALSE)) : j \in Objs}

\* reflect.ValueOf(v) of the top-level argument: nil, a string, a nil
\* pointer or struct object 1, the last three behind 0..MaxPtr pointers.
StructArgs == {MkValue("Struct", d, 1, "", FALSE) : d \in 0..MaxPtr}

ArgChoices ==
    {ZeroValue}
    \cup {MkValue("String", d, 0, "42", FALSE) : d \in 0..MaxPtr}
    \cup {MkValue("NilPointer", d, 0, "", FALSE) : d \in 0..MaxPtr}
    \cup StructArgs

\* (family, argument) of a call
GraphInputs == {<<"graph", a>> : a \in StructArgs}

Inputs == {<<"tree", a>> : a \in ArgChoices} \cup GraphInputs

RootNames == {"cfg"}

\* The entries the context holds when it is passed in.
PriorCtx == <<[key |-> "service", val |-> StringValue("api")]>>

\* -------------------------------------------------------------------- state
VARIABLES
    family,    \* "tree" | "graph": the family the call's input is drawn from
    pc,        \* "idle" | "walk" | "done" | "panic" | "overflow"
    arg,       \* reflect.ValueOf(v) of the call
    rootName,  \* rootName of the call
    heap,      \* <<o, i>> -> the declared field i of struct object o
    stack,     \* active censorFields calls: [path, v, i], innermost last
    ctx,       \* the zerolog.Context: the sequence of [key, val] entries
    hpc,       \* the event: "none" | "built" | "hooked" | "written"
    level,     \* the event's level
    errCtx,    \* ctxerr.From(e.GetCtx()): [Err, Ctx]
    callers,   \* the call stack at the hook, Run's own frame first
    event      \* the zerolog.Event: the sequence of [key, val] fields

walkVars == <<family, pc, arg, rootName, heap, stack, ctx>>
hookVars == <<hpc, level, errCtx, callers, event>>
vars == <<family, pc, arg, rootName, heap, stack, ctx,
          hpc, level, errCtx, callers, event>>

\* ------------------------------------------------------------ the event hook
\* zerolog's levels, by the names logLevels gives them, and the level of an
\* event logged without one.
Levels == {"trace", "debug", "info", "warn", "error", "fatal", "panic", "nolevel"}

\* zerolog's numbering of the levels
LevelNum ==
    [l \in Levels |->
        CASE l = "trace" -> 0 - 1
          [] l = "debug" -> 0
          [] l = "info" -> 1
          [] l = "warn" -> 2
          [] l = "error" -> 3
          [] l = "fatal" -> 4
          [] l = "panic" -> 5
          [] l = "nolevel" -> 6]

\* Largest number of frames on the call stack at the hook.
MaxFrames == 5

\* The frame `k` levels up the stack, Run's own being frame 0.
StackFrame(k) == [file |-> "f" \o ToString(k) \o ".go", line |-> 10 + k]

\* The call stacks the hook may run on: Run's frame and up to MaxFrames - 1
\* frames above it.
CallerChoices == {[k \in 1..n |-> StackFrame(k - 1)] : n \in 1..MaxFrames}

\* The error contexts an event may carry: an error or none, and the
\* auxiliary mapping (its pairs in the key order zerolog adds them).
ErrCtxChoices ==
    {[Err |-> e, Ctx |-> c] :
        e \in {"", "boom"},
        c \in {<<>>,
               <<[key |-> "manifest", val |-> "x"]>>,
               <<[key |-> "document", val |-> "d"], [key |-> "manifest", val |-> "x"]>>}}

\* The fields an event holds when the hook runs.
PriorEvent == <<[key |-> "message", val |-> "an error occurred"]>>

\* runtime.Caller(skip)
Caller(skip) ==
    IF skip + 1 <= Len(callers)
    THEN [file |-> callers[skip + 1].file, line |-> callers[skip + 1].line, ok |-> TRUE]
    ELSE [file |-> "", line |-> 0, ok |-> FALSE]

\* the frames runtime.Caller skips
CallerSkip == 3

\* errCtx.Err != nil
HasErr(ec) == ec.Err # ""

\* the auxiliary pairs merged outside the `if`
ErrFieldsPairsAlways(ec) ==
    ec.Ctx \o (IF HasErr(ec) THEN <<[key |-> "error", val |-> ec.Err]>> ELSE <<>>)

\* e.Fields(errCtx.Ctx); e.Err(errCtx.Err)
ErrFields(ec) ==
    IF HasErr(ec)
    THEN ec.Ctx \o <<[key |-> "error", val |-> ec.Err]>>
    ELSE <<>>

\* the level compared with the threshold instead of matched in the switch
IsAtLeastError(l) == LevelNum[l] >= LevelNum["error"]

\* case zerolog.ErrorLevel, zerolog.FatalLevel, zerolog.PanicLevel
IsHighSeverity(l) == l \in {"error", "fatal", "panic"}

\* fmt.Sprintf("%s:%d", file, line)
FileLine(file, line) == file \o ":" \o ToString(line)

\* _, file, line, ok := runtime.Caller(3); if ok { e.Str("file", ...) }
CallerFields(l) ==
    IF IsHighSeverity(l) /\ Caller(CallerSkip).ok
    THEN <<[key |-> "file",
            val |-> FileLine(Caller(CallerSkip).file, Caller(CallerSkip).line)]>>
    ELSE <<>>

\* ------------------------------------------------------------- the redactor
\* What field i of object o may hold in the call's input
FieldChoices(o, i) ==
    IF family = "graph" THEN GraphChoices(o, i) ELSE TreeChoices(o, i)

Init ==
    /\ family = "tree"
    /\ pc = "idle"
    /\ arg = ZeroValue
    /\ rootName = ""
    /\ heap = <<>>
    /\ stack = <<>>
    /\ ctx = PriorCtx
    /\ hpc = "none"
    /\ level = "info"
    /\ errCtx = [Err |-> "", Ctx |-> <<>>]
    /\ callers = <<>>
    /\ event = <<>>

Top == stack[Len(stack)]

\* i < v.NumField() in the innermost call
InLoop == pc = "walk" /\ Top.i <= NumField

\* vType.Field(i) and v.Field(i) of the struct the innermost call walks.
\* The struct's fields are fixed when the walk first reads them.
ReadsField(f) ==
    /\ f \in FieldChoices(Top.v.ref, Top.i)
    /\ <<Top.v.ref, Top.i>> \in DOMAIN heap => f = heap[<<Top.v.ref, Top.i>>]
    /\ heap' = (<<Top.v.ref, Top.i>> :> f) @@ heap

\* v.Field(i): read-only when the field is unexported or v is
FieldValue(v, f) == [f.val EXCEPT !.ro = v.ro \/ ~f.exported]

\* the field's path built from the root name instead of the current path
FieldPathFromRoot(path, name) == rootName \o "." \o name

\* path + "." + fieldType.Name
FieldPath(path, name) == path \o "." \o name

\* censorFields(ctx, path, v) from its entry to its loop, v being a struct
\* or a pointer to one: v, ok := asStruct(v); i := 0
Frame(path, v) == [path |-> path, v |-> asStruct(v).v, i |-> 1]

\* the loop's i++ in the innermost call
Advance(s) == [s EXCEPT ![Len(s)].i = @ + 1]

\* WithCensoredSecretFields(ctx, rootName, v): censorFields' entry
CallOn(in) ==
    /\ pc = "idle"
    /\ \E r \in RootNames :
        /\ family' = in[1]
        /\ arg' = in[2]
        /\ rootName' = r
        /\ IF asStruct(in[2]).ok
           THEN /\ stack' = <<Frame(r, in[2])>>
                /\ pc' = "walk"
           ELSE /\ stack' = stack
                /\ pc' = "done"
    /\ UNCHANGED <<heap, ctx>>
    /\ UNCHANGED hookVars

\* a call on any input
Call == \E in \in Inputs : CallOn(in)

\* a call on a record of the "graph" family
CallGraph == \E in \in GraphInputs : CallOn(in)

\* Nested with cycle detection: a struct already being walked is skipped
NestedUnlessOnStack ==
    /\ InLoop
    /\ \E f \in FieldChoices(Top.v.ref, Top.i) :
        /\ ReadsField(f)
        /\ asStruct(FieldValue(Top.v, f)).ok
        /\ Len(stack) < MaxDepth
        /\ stack' =
            IF \E k \in DOMAIN stack : stack[k].v.ref = f.val.ref
            THEN Advance(stack)
            ELSE Append(Advance(stack),
                        Frame(FieldPath(Top.path, f.name),
                              asStruct(FieldValue(Top.v, f)).v))
        /\ UNCHANGED <<family, pc, arg, rootName, ctx>>
        /\ UNCHANGED hookVars

\* a nested struct: censorFields(ctx, path+"."+name, nestedStruct); continue
Nested ==
    /\ InLoop
    /\ \E f \in FieldChoices(Top.v.ref, Top.i) :
        /\ ReadsField(f)
        /\ asStruct(FieldValue(Top.v, f)).ok
        /\ Len(stack) < MaxDepth
        /\ stack' = Append(Advance(stack),
                           Frame(FieldPath(Top.path, f.name),
                                 asStruct(FieldValue(Top.v, f)).v))
        /\ UNCHANGED <<family, pc, arg, rootName, ctx>>
        /\ UNCHANGED hookVars

\* the same call, one level deeper than the model follows
Overflow ==
    /\ InLoop
    /\ \E f \in FieldChoices(Top.v.ref, Top.i) :
        /\ ReadsField(f)
        /\ asStruct(FieldValue(Top.v, f)).ok
        /\ Len(stack) >= MaxDepth
        /\ pc' = "overflow"
        /\ UNCHANGED <<family, arg, rootName, stack, ctx>>
        /\ UNCHANGED hookVars

\* *ctx = ctx.Str(fieldPath, CensoredFieldPlaceholder)
Censor ==
    /\ InLoop
    /\ \E f \in FieldChoices(Top.v.ref, Top.i) :
        /\ ReadsField(f)
        /\ ~asStruct(FieldValue(Top.v, f)).ok
        /\ isFieldSecret(f)
        /\ ctx' = Append(ctx, [key |-> FieldPath(Top.path, f.name),
                               val |-> StringValue(CensoredFieldPlaceholder)])
        /\ stack' = Advance(stack)
        /\ UNCHANGED <<family, pc, arg, rootName>>
        /\ UNCHANGED hookVars

\* *ctx = ctx.Any(fieldPath, fieldValue.Interface())
Emit ==
    /\ InLoop
    /\ \E f \in FieldChoices(Top.v.ref, Top.i) :
        /\ ReadsField(f)
        /\ ~asStruct(FieldValue(Top.v, f)).ok
        /\ ~isFieldSecret(f)
        /\ ~InterfacePanics(FieldValue(Top.v, f))
        /\ ctx' = Append(ctx, [key |-> FieldPath(Top.path, f.name),
                               val |-> Interface(FieldValue(Top.v, f))])
        /\ stack' = Advance(stack)
        /\ UNCHANGED <<family, pc, arg, rootName>>
        /\ UNCHANGED hookVars

\* fieldValue.Interface() on a value obtained through an unexported field
Panic ==
    /\ InLoop
    /\ \E f \in FieldChoices(Top.v.ref, Top.i) :
        /\ ReadsField(f)
        /\ ~asStruct(FieldValue(Top.v, f)).ok
        /\ ~isFieldSecret(f)
        /\ InterfacePanics(FieldValue(Top.v, f))
        /\ pc' = "panic"
        /\ UNCHANGED <<family, arg, rootName, stack, ctx>>
        /\ UNCHANGED hookVars

\* the loop ends: censorFields returns to its caller
Return ==
    /\ pc = "walk"
    /\ Top.i > NumField
    /\ stack' = SubSeq(stack, 1, Len(stack) - 1)
    /\ pc' = IF Len(stack) = 1 THEN "done" ELSE "walk"
    /\ UNCHANGED <<family, arg, rootName, heap, ctx>>
    /\ UNCHANGED hookVars

Next == Call \/ Nested \/ Overflow \/ Censor \/ Emit \/ Panic \/ Return

Spec == Init /\ [][Next]_vars

\* The redactor on "graph" inputs.  A call is one synchronous computation
\* on the caller's goroutine: while it has a next step, it takes it.
GraphNext == CallGraph \/ Nested \/ Overflow \/ Censor \/ Emit \/ Return

GraphSpec == Init /\ [][GraphNext]_vars /\ WF_vars(GraphNext)

\* logger.<Level>().Ctx(...): an event is built and is about to be emitted
NewEvent ==
    /\ hpc = "none"
    /\ \E l \in Levels, ec \in ErrCtxChoices, cs \in CallerChoices :
        /\ level' = l
        /\ errCtx' = ec
        /\ callers' = cs
    /\ event' = PriorEvent
    /\ hpc' = "built"
    /\ UNCHANGED walkVars

\* callerHook.Run(e, level, msg)
Run ==
    /\ hpc = "built"
    /\ event' = event \o ErrFields(errCtx) \o CallerFields(level)
    /\ hpc' = "hooked"
    /\ UNCHANGED <<level, errCtx, callers>>
    /\ UNCHANGED walkVars

\* the logger writes the event once its hooks have run
Write ==
    /\ hpc = "hooked"
    /\ hpc' = "written"
    /\ UNCHANGED <<level, errCtx, callers, event>>
    /\ UNCHANGED walkVars

HookNext == NewEvent \/ Run \/ Write

HookSpec == Init /\ [][HookNext]_vars

\* ------------------------------------------------- what a call was given
\* The entries the call added to the context.
Added == SubSeq(ctx, Len(PriorCtx) + 1, Len(ctx))

AddedKeys == [k \in DOMAIN Added |-> Added[k].key]

Placeholder == StringValue(CensoredFieldPlaceholder)

\* The declared fields of the record at `o`, each followed by the fields of
\* the record it holds (directly or behind non-nil pointers), in declaration
\* order: [path, f, level, tainted], `level` the nesting level and `tainted`
\* set when the field or a field above it carries a secret tag.  This reads the input only; it is the record the
\* caller passed, not what the walk did with it.
RECURSIVE FieldsFrom(_, _, _, _, _, _)
FieldsFrom(o, i, path, tainted, lvl, fuel) ==
    IF i > Len(FieldNames) \/ <<o, i>> \notin DOMAIN heap
    THEN <<>>
    ELSE LET f == heap[<<o, i>>]
             item == [path |-> path \o "." \o f.name, f |-> f, level |-> lvl,
                      tainted |-> tainted \/ f.secret # ""]
         IN  <<item>>
             \o (IF f.val.kind = "Struct" /\ fuel > 0
                 THEN FieldsFrom(f.val.ref, 1, item.path, item.tainted, lvl + 1, fuel - 1)
                 ELSE <<>>)
             \o FieldsFrom(o, i + 1, path, tainted, lvl, fuel)

\* The fields of the record the call was given.
InputFields ==
    IF arg.kind = "Struct"
    THEN FieldsFrom(arg.ref, 1, rootName, FALSE, 1, MaxDepth)
    ELSE <<>>

\* A leaf is a field that holds no record: a string or a nil pointer.
IsLeaf(item) == item.f.val.kind # "Struct"

IsSecret(item) == item.f.secret # ""

\* The Go value a field holds.
Stored(item) ==
    [kind |-> item.f.val.kind, depth |-> item.f.val.depth,
     ref |-> item.f.val.ref, data |-> item.f.val.data]

InputLeaves == SelectSeq(InputFields, IsLeaf)

\* The positions of the entries added under `path`.
EntriesAt(path) == {k \in DOMAIN Added : Added[k].key = path}

\* The paths one level below `path`.
Below1(path) == {path \o "." \o FieldNames[a] : a \in DOMAIN FieldNames}

\* The paths below `path`, one and two levels down.
Below(path) ==
    Below1(path)
    \cup {path \o "." \o FieldNames[a] \o "." \o FieldNames[b] :
            a \in DOMAIN FieldNames, b \in DOMAIN FieldNames}

\* The record graph of the input: whether object o holds object j behind
\* non-nil pointers (or by value) in one of its fields.
Holds(o, j) ==
    \E i \in DOMAIN FieldNames :
        /\ <<o, i>> \in DOMAIN heap
        /\ heap[<<o, i>>].val.kind = "Struct"
        /\ heap[<<o, i>>].val.ref = j

RECURSIVE Reaches(_, _, _)
Reaches(o, j, fuel) ==
    \/ Holds(o, j)
    \/ fuel > 0 /\ \E m \in Objs : Holds(o, m) /\ Reaches(m, j, fuel - 1)

\* The input holds a record that leads back to itself.
InputCyclic ==
    /\ arg.kind = "Struct"
    /\ \E o \in Objs :
        /\ o = arg.ref \/ Reaches(arg.ref, o, Cardinality(Objs))
        /\ Reaches(o, o, Cardinality(Objs))

\* ------------------------------------------------------------------ claims

C2_NilFieldEmitsNothing ==
    pc = "done" =>
        \A k \in DOMAIN InputFields :
            InputFields[k].f.val.kind = "NilPointer" =>
                \A e \in DOMAIN Added :
                    Added[e].key \notin {InputFields[k].path} \cup Below(InputFields[k].path)

\* C3: when the call returns, every entry for a secret-tagged field, or for
\* a field of a record held by a secret-tagged field, is the placeholder,
\* and no entry holds the content of such a field.
C3_SecretFieldCensoredWhateverItsType ==
    pc = "done" =>
        \A k \in DOMAIN InputLeaves :
            InputLeaves[k].tainted =>
                /\ \A e \in EntriesAt(InputLeaves[k].path) : Added[e].val = Placeholder
                /\ InputLeaves[k].f.val.kind = "String" =>
                       \A e \in DOMAIN Added : Added[e].val # Stored(InputLeaves[k])

\* C4: the call never panics.
C4_NeverPanics == pc # "panic"

\* C5: a call whose argument is no record after dereferencing returns at
\* once, and the context holds exactly the entries it held on entry.
C5_NonRecordAddsNothing ==
    (pc # "idle" /\ arg.kind # "Struct") =>
        /\ pc = "done"
        /\ ctx = PriorCtx
        /\ stack = <<>>

\* A call returned that was given a pointer to a pointer to a string.
C5_Witness ==
    /\ pc = "done"
    /\ arg.kind = "String"
    /\ arg.depth = 2
    /\ ctx = PriorCtx

\* The record at `val` stored directly, without its pointer levels.
Direct(val) == IF val.kind = "Struct" THEN [val EXCEPT !.depth = 0] ELSE val

\* The entries of the record at `o` when every record below it is stored
\* by value: a field holding a record by value gives its fields' entries,
\* any other field gives one entry, the placeholder if it is secret-tagged.
RECURSIVE DirectEntries(_, _, _, _)
DirectEntries(o, i, path, fuel) ==
    IF i > Len(FieldNames) \/ <<o, i>> \notin DOMAIN heap
    THEN <<>>
    ELSE LET f == heap[<<o, i>>]
             d == Direct(f.val)
             p == path \o "." \o f.name
         IN  (IF d.kind = "Struct" /\ d.depth = 0
              THEN IF fuel > 0 THEN DirectEntries(d.ref, 1, p, fuel - 1) ELSE <<>>
              ELSE <<[key |-> p,
                      val |-> IF f.secret # "" THEN Placeholder
                              ELSE [kind |-> d.kind, depth |-> d.depth,
                                    ref |-> d.ref, data |-> d.data]]>>)
             \o DirectEntries(o, i + 1, path, fuel)

\* C6: when the call returns, the added entries are those of the same
\* record with every pointer to a record, at the top level and in every
\* field, replaced by the record itself.
C6_PointerLevelsDoNotMatter ==
    (pc = "done" /\ arg.kind = "Struct") =>
        Added = DirectEntries(Direct(arg).ref, 1, rootName, MaxDepth)

\* A call returned that was given a pointer to a pointer to a record, one
\* field of which holds a record behind two pointers, and added its leaves.
C6_Witness ==
    /\ pc = "done"
    /\ arg.kind = "Struct"
    /\ arg.depth = 2
    /\ \E k \in DOMAIN InputFields :
        /\ InputFields[k].f.val.kind = "Struct"
        /\ InputFields[k].f.val.depth = 2
    /\ Len(Added) >= 2

CycleOnStack ==
    \E a, b \in DOMAIN stack : a < b /\ stack[a].v.ref = stack[b].v.ref

Hooked == SubSeq(event, Len(PriorEvent) + 1, Len(event))

HookRan == hpc \in {"hooked", "written"}

\* C8: once the hook has run, the event holds the auxiliary pairs and an
\* "error" field exactly when the error context's error is not nil; the
\* pairs then come first, in order, and the "error" field right after them.
C8_ErrorContextMergedIffError ==
    HookRan =>
        /\ (\E k \in DOMAIN Hooked : Hooked[k].key = "error") <=> errCtx.Err # ""
        /\ errCtx.Err = "" =>
            \A k \in DOMAIN Hooked : \A c \in DOMAIN errCtx.Ctx : Hooked[k] # errCtx.Ctx[c]
        /\ errCtx.Err # "" =>
            /\ Len(Hooked) > Len(errCtx.Ctx)
            /\ SubSeq(Hooked, 1, Len(errCtx.Ctx)) = errCtx.Ctx
            /\ Hooked[Len(errCtx.Ctx) + 1] = [key |-> "error", val |-> errCtx.Err]

\* The hook ran on an event whose error context holds an error and two
\* auxiliary pairs.
C8_Witness ==
    /\ HookRan
    /\ errCtx.Err # ""
    /\ Len(errCtx.Ctx) = 2
    /\ Len(Hooked) >= 3

\* C9: once the hook has run, the event holds a "file" field exactly when
\* its level is error, fatal or panic and the stack has a frame three levels
\* above the hook; the field is that frame's "file:line"; and whatever the
\* hook did, the event can be written.
C9_CallerAttachedIffHighSeverity ==
    /\ HookRan =>
        /\ (\E k \in DOMAIN Hooked : Hooked[k].key = "file")
               <=> (level \in {"error", "fatal", "panic"} /\ Len(callers) >= 4)
        /\ \A k \in DOMAIN Hooked :
               Hooked[k].key = "file" =>
                   /\ Hooked[k].val = callers[4].file \o ":" \o ToString(callers[4].line)
                   /\ k = Len(Hooked)
    /\ hpc = "hooked" => ENABLED Write
    /\ hpc = "built" => ENABLED Run

\* The hook ran on a fatal event with five frames on the stack and the
\* event was written.
C9_Witness ==
    /\ hpc = "written"
    /\ level = "fatal"
    /\ Len(callers) = 5
    /\ \E k \in DOMAIN Hooked : Hooked[k].key = "file" /\ Hooked[k].val = "f3.go:13"

====
